---- MODULE Spec2Model ----
(***************************************************************************)
(* Model of py/sequence.c (MicroPython): the helpers shared by the         *)
(* sequence types.  Every helper is a pure function of its arguments       *)
(* (mp_seq_multiply also writes a caller-supplied buffer), so the state    *)
(* machine is: a caller builds the arguments (Init), calls one helper      *)
(* (one action per helper), and holds its outcome (pc = "done").           *)
(***************************************************************************)
EXTENDS Integers, Sequences, FiniteSets, TLC

VARIABLES
    pc,         \* the call the caller is at ("slice", "cmp", "search", "mul"), then "done"
    fn,         \* the helper that was called ("none" before the call)
    in_len,     \* mp_seq_get_fast_slice_indexes: len
    in_slice,   \* mp_seq_get_fast_slice_indexes: the slice object
    out_begin,  \* the caller's cell *begin
    out_end,    \* the caller's cell *end
    in_op,      \* mp_seq_cmp_*: op
    in_data1,   \* mp_seq_cmp_bytes: data1 (len1 is its length)
    in_data2,   \* mp_seq_cmp_bytes: data2 (len2 is its length)
    in_items1,  \* mp_seq_cmp_objs: items1
    in_items2,  \* mp_seq_cmp_objs: items2
    in_items,   \* mp_seq_index_obj / mp_seq_count_obj: items (len is its length)
    in_args,    \* mp_seq_index_obj: args (n_args is its length); args[1] is self
    mem,        \* mp_seq_multiply: the memory holding the destination and the source run
    in_item_sz, \* mp_seq_multiply: item_sz
    in_mlen,    \* mp_seq_multiply: len
    in_times,   \* mp_seq_multiply: times
    result,     \* the bool a helper returned
    retval,     \* the small int a helper returned (index, count, bytes written)
    raised,     \* "none", or the exception type nlr_raise was given
    trace       \* the element accesses made, in order

vars == <<pc, fn, in_len, in_slice, out_begin, out_end, in_op, in_data1, in_data2,
          in_items1, in_items2, in_items, in_args, mem, in_item_sz, in_mlen,
          in_times, result, retval, raised, trace>>

(***************************************************************************)
(* Bounds of the model.                                                    *)
(***************************************************************************)
\* width of machine_int_t / machine_uint_t, scaled down
WordBits == 8
\* largest sequence length given to the slice resolver
MaxLen == 10
\* largest slice step tried (steps are None, True and -1..MaxStep)
MaxStep == 2
\* longest sequence compared, searched, counted or repeated
MaxSeqLen == 2
\* elements and bytes are 0..MaxVal
MaxVal == 2
\* largest repeat count
MaxTimes == 2
\* bytes of the destination buffer beyond times * len * item_sz
Slack == 1

(***************************************************************************)
(* Machine words: machine_uint_t arithmetic is modulo 2^WordBits, and a    *)
(* machine_int_t is its two's complement reading.                          *)
(***************************************************************************)
WordMod == 2 ^ WordBits

ToUint(x) == x % WordMod

ToInt(u) == IF (u % WordMod) >= WordMod \div 2 THEN (u % WordMod) - WordMod ELSE u % WordMod

(***************************************************************************)
(* Objects (mp_obj_t): a tag and a payload.                                *)
(***************************************************************************)
mp_const_none == [tag |-> "none", val |-> 0]

mp_const_true == [tag |-> "bool", val |-> 1]

mp_const_false == [tag |-> "bool", val |-> 0]

MP_OBJ_NEW_SMALL_INT(n) == [tag |-> "int", val |-> n]

MP_OBJ_SMALL_INT_VALUE(o) == o.val

\* a set object whose members are the bits of v: ordered by inclusion, not totally
NewSet(v) == [tag |-> "set", val |-> v]

Bits(v) == {k \in 0..WordBits : (v \div (2 ^ k)) % 2 = 1}

MP_BINARY_OP_EQUAL == "EQUAL"

MP_BINARY_OP_LESS == "LESS"

MP_BINARY_OP_MORE == "MORE"

MP_BINARY_OP_LESS_EQUAL == "LESS_EQUAL"

MP_BINARY_OP_MORE_EQUAL == "MORE_EQUAL"

CmpOps == {MP_BINARY_OP_EQUAL, MP_BINARY_OP_LESS, MP_BINARY_OP_MORE,
           MP_BINARY_OP_LESS_EQUAL, MP_BINARY_OP_MORE_EQUAL}

(***************************************************************************)
(* The equality / ordering capability of the object model.                 *)
(***************************************************************************)
mp_obj_equal(o1, o2) == o1 = o2

mp_binary_op(op, lhs, rhs) ==
    LET holds ==
            IF lhs.tag = "set"
            THEN CASE op = MP_BINARY_OP_MORE -> Bits(rhs.val) \subseteq Bits(lhs.val) /\ lhs.val # rhs.val
                   [] op = MP_BINARY_OP_MORE_EQUAL -> Bits(rhs.val) \subseteq Bits(lhs.val)
                   [] op = MP_BINARY_OP_LESS -> Bits(lhs.val) \subseteq Bits(rhs.val) /\ lhs.val # rhs.val
                   [] op = MP_BINARY_OP_LESS_EQUAL -> Bits(lhs.val) \subseteq Bits(rhs.val)
                   [] OTHER -> lhs.val = rhs.val
            ELSE CASE op = MP_BINARY_OP_MORE -> lhs.val > rhs.val
                   [] op = MP_BINARY_OP_MORE_EQUAL -> lhs.val >= rhs.val
                   [] op = MP_BINARY_OP_LESS -> lhs.val < rhs.val
                   [] op = MP_BINARY_OP_LESS_EQUAL -> lhs.val <= rhs.val
                   [] OTHER -> lhs.val = rhs.val
    IN  IF holds THEN mp_const_true ELSE mp_const_false

(***************************************************************************)
(* mp_seq_get_fast_slice_indexes                                           *)
(***************************************************************************)
mp_obj_slice_get(slice) == [ostart |-> slice.start, ostop |-> slice.stop, ostep |-> slice.step]

\* mutant of SliceStart: a negative start is clamped to 0 without counting from the end
SliceStart_NoWrap(len, start) ==
    IF start < 0 THEN 0
    ELSE IF ToUint(start) > len THEN ToInt(len) ELSE start

\* lines 76-83: a negative start counts from the end; start is clamped to [0, len]
SliceStart(len, start) ==
    IF start < 0
    THEN LET s == ToInt(ToUint(len + start))
         IN  IF s < 0 THEN 0 ELSE s
    ELSE IF ToUint(start) > len THEN ToInt(len) ELSE start

\* lines 84-92: a negative stop counts from the end; too far gives start
SliceStop(len, start, stop) ==
    IF stop < 0
    THEN LET s == ToInt(ToUint(len + stop))
         IN  IF s < 0 THEN start ELSE s
    ELSE IF ToUint(stop) > len THEN ToInt(len) ELSE stop

\* mutant of SliceOrder: the final start > stop test is missing
SliceOrder_NoClamp(start, stop) == stop

\* lines 95-97: an inverted range becomes the empty range at start
SliceOrder(start, stop) == IF start > stop THEN start ELSE stop

\* mutant of SliceStepUnsupported: only steps above 1 are rejected
SliceStepUnsupported_Above1(ostep) == ostep # mp_const_none /\ MP_OBJ_SMALL_INT_VALUE(ostep) > 1

\* lines 58-62: the step test
SliceStepUnsupported(ostep) == ostep # mp_const_none /\ ostep # MP_OBJ_NEW_SMALL_INT(1)

\* begin and end are the contents of the caller's cells before the call
mp_seq_get_fast_slice_indexes(len, slice, begin, end) ==
    LET o == mp_obj_slice_get(slice)
    IN  IF SliceStepUnsupported(o.ostep)
        THEN [raised |-> "NotImplementedError", result |-> FALSE, begin |-> begin, end |-> end]
        ELSE LET start0 == IF o.ostart = mp_const_none THEN 0 ELSE MP_OBJ_SMALL_INT_VALUE(o.ostart)
                 stop0 == IF o.ostop = mp_const_none THEN ToInt(len) ELSE MP_OBJ_SMALL_INT_VALUE(o.ostop)
                 start == SliceStart(len, start0)
                 stop == SliceOrder(start, SliceStop(len, start, stop0))
             IN  [raised |-> "none", result |-> TRUE, begin |-> ToUint(start), end |-> ToUint(stop)]

(***************************************************************************)
(* mp_seq_cmp_bytes and mp_seq_cmp_objs.  Sequences are 1-based here; the  *)
(* trace records the 0-based indexes of the source.                        *)
(***************************************************************************)
\* memcmp(s1, s2, n): the sign of the first differing byte pair, 0 when n bytes agree
RECURSIVE memcmp_from(_, _, _, _)
memcmp_from(s1, s2, n, i) ==
    IF i >= n THEN 0
    ELSE IF s1[i + 1] < s2[i + 1] THEN -1
    ELSE IF s1[i + 1] > s2[i + 1] THEN 1
    ELSE memcmp_from(s1, s2, n, i + 1)

memcmp(s1, s2, n) == memcmp_from(s1, s2, n, 0)

\* mutant of SWAP: var1 is overwritten before it is saved
SWAP_Lost(var1, var2) == <<var1, var1>>

\* #define SWAP(type, var1, var2): the pair (var1, var2) after the exchange
SWAP(var1, var2) == <<var2, var1>>

\* mutant of mp_seq_cmp_bytes: the test of lines 107-109 is missing
mp_seq_cmp_bytes_NoShortcut(op, data1, len1, data2, len2) ==
    LET swap == op = MP_BINARY_OP_LESS \/ op = MP_BINARY_OP_LESS_EQUAL
        d == IF swap THEN SWAP(data1, data2) ELSE <<data1, data2>>
        l == IF swap THEN SWAP(len1, len2) ELSE <<len1, len2>>
        nop == IF ~swap THEN op
               ELSE IF op = MP_BINARY_OP_LESS THEN MP_BINARY_OP_MORE
               ELSE MP_BINARY_OP_MORE_EQUAL
        min_len == IF l[1] < l[2] THEN l[1] ELSE l[2]
        res == memcmp(d[1], d[2], min_len)
        tr == <<[f |-> "memcmp", i |-> min_len]>>
    IN  IF nop = MP_BINARY_OP_EQUAL THEN [result |-> res = 0, trace |-> tr]
        ELSE IF res < 0 THEN [result |-> FALSE, trace |-> tr]
        ELSE IF res > 0 THEN [result |-> TRUE, trace |-> tr]
        ELSE IF l[1] # l[2]
             THEN (IF l[1] < l[2] THEN [result |-> FALSE, trace |-> tr]
                   ELSE [result |-> TRUE, trace |-> tr])
             ELSE IF nop = MP_BINARY_OP_MORE THEN [result |-> FALSE, trace |-> tr]
             ELSE [result |-> TRUE, trace |-> tr]

mp_seq_cmp_bytes(op, data1, len1, data2, len2) ==
    IF op = MP_BINARY_OP_EQUAL /\ len1 # len2
    THEN [result |-> FALSE, trace |-> <<>>]
    ELSE LET swap == op = MP_BINARY_OP_LESS \/ op = MP_BINARY_OP_LESS_EQUAL
             d == IF swap THEN SWAP(data1, data2) ELSE <<data1, data2>>
             l == IF swap THEN SWAP(len1, len2) ELSE <<len1, len2>>
             nop == IF ~swap THEN op
                    ELSE IF op = MP_BINARY_OP_LESS THEN MP_BINARY_OP_MORE
                    ELSE MP_BINARY_OP_MORE_EQUAL
             min_len == IF l[1] < l[2] THEN l[1] ELSE l[2]
             res == memcmp(d[1], d[2], min_len)
             tr == <<[f |-> "memcmp", i |-> min_len]>>
         IN  IF nop = MP_BINARY_OP_EQUAL THEN [result |-> res = 0, trace |-> tr]
             ELSE IF res < 0 THEN [result |-> FALSE, trace |-> tr]
             ELSE IF res > 0 THEN [result |-> TRUE, trace |-> tr]
             ELSE IF l[1] # l[2]
                  THEN (IF l[1] < l[2] THEN [result |-> FALSE, trace |-> tr]
                        ELSE [result |-> TRUE, trace |-> tr])
                  ELSE IF nop = MP_BINARY_OP_MORE THEN [result |-> FALSE, trace |-> tr]
                  ELSE [result |-> TRUE, trace |-> tr]

\* mutant of cmp_objs_scan: the relation is applied to the operands in the other order
RECURSIVE cmp_objs_scan_Swapped(_, _, _, _, _, _)
cmp_objs_scan_Swapped(op, items1, items2, len, i, tr) ==
    IF i >= len THEN [decided |-> FALSE, result |-> FALSE, trace |-> tr]
    ELSE LET tr1 == Append(tr, [f |-> "mp_obj_equal", i |-> i])
         IN  IF mp_obj_equal(items1[i + 1], items2[i + 1])
             THEN cmp_objs_scan_Swapped(op, items1, items2, len, i + 1, tr1)
             ELSE IF op = MP_BINARY_OP_EQUAL
             THEN [decided |-> TRUE, result |-> FALSE, trace |-> tr1]
             ELSE [decided |-> TRUE,
                   result |-> mp_binary_op(op, items2[i + 1], items1[i + 1]) = mp_const_true,
                   trace |-> Append(tr1, [f |-> "mp_binary_op", i |-> i])]

\* lines 167-181: the scan of the common prefix; decided is FALSE when it ends in a tie
RECURSIVE cmp_objs_scan(_, _, _, _, _, _)
cmp_objs_scan(op, items1, items2, len, i, tr) ==
    IF i >= len THEN [decided |-> FALSE, result |-> FALSE, trace |-> tr]
    ELSE LET tr1 == Append(tr, [f |-> "mp_obj_equal", i |-> i])
         IN  IF mp_obj_equal(items1[i + 1], items2[i + 1])
             THEN cmp_objs_scan(op, items1, items2, len, i + 1, tr1)
             ELSE IF op = MP_BINARY_OP_EQUAL
             THEN [decided |-> TRUE, result |-> FALSE, trace |-> tr1]
             ELSE [decided |-> TRUE,
                   result |-> mp_binary_op(op, items1[i + 1], items2[i + 1]) = mp_const_true,
                   trace |-> Append(tr1, [f |-> "mp_binary_op", i |-> i])]

\* mutant of mp_seq_cmp_objs: the length test of line 186 is inverted
mp_seq_cmp_objs_TieInverted(op, items1, len1, items2, len2) ==
    IF op = MP_BINARY_OP_EQUAL /\ len1 # len2
    THEN [result |-> FALSE, trace |-> <<>>]
    ELSE LET swap == op = MP_BINARY_OP_LESS \/ op = MP_BINARY_OP_LESS_EQUAL
             it == IF swap THEN SWAP(items1, items2) ELSE <<items1, items2>>
             l == IF swap THEN SWAP(len1, len2) ELSE <<len1, len2>>
             nop == IF ~swap THEN op
                    ELSE IF op = MP_BINARY_OP_LESS THEN MP_BINARY_OP_MORE
                    ELSE MP_BINARY_OP_MORE_EQUAL
             len == IF l[1] < l[2] THEN l[1] ELSE l[2]
             scan == cmp_objs_scan(nop, it[1], it[2], len, 0, <<>>)
         IN  IF scan.decided THEN [result |-> scan.result, trace |-> scan.trace]
             ELSE IF l[1] # l[2]
                  THEN (IF l[1] > l[2] THEN [result |-> FALSE, trace |-> scan.trace]
                        ELSE [result |-> TRUE, trace |-> scan.trace])
                  ELSE IF nop = MP_BINARY_OP_MORE THEN [result |-> FALSE, trace |-> scan.trace]
                  ELSE [result |-> TRUE, trace |-> scan.trace]

mp_seq_cmp_objs(op, items1, len1, items2, len2) ==
    IF op = MP_BINARY_OP_EQUAL /\ len1 # len2
    THEN [result |-> FALSE, trace |-> <<>>]
    ELSE LET swap == op = MP_BINARY_OP_LESS \/ op = MP_BINARY_OP_LESS_EQUAL
             it == IF swap THEN SWAP(items1, items2) ELSE <<items1, items2>>
             l == IF swap THEN SWAP(len1, len2) ELSE <<len1, len2>>
             nop == IF ~swap THEN op
                    ELSE IF op = MP_BINARY_OP_LESS THEN MP_BINARY_OP_MORE
                    ELSE MP_BINARY_OP_MORE_EQUAL
             len == IF l[1] < l[2] THEN l[1] ELSE l[2]
             scan == cmp_objs_scan(nop, it[1], it[2], len, 0, <<>>)
         IN  IF scan.decided THEN [result |-> scan.result, trace |-> scan.trace]
             ELSE IF l[1] # l[2]
                  THEN (IF l[1] < l[2] THEN [result |-> FALSE, trace |-> scan.trace]
                        ELSE [result |-> TRUE, trace |-> scan.trace])
                  ELSE IF nop = MP_BINARY_OP_MORE THEN [result |-> FALSE, trace |-> scan.trace]
                  ELSE [result |-> TRUE, trace |-> scan.trace]

(***************************************************************************)
(* mp_seq_index_obj and mp_seq_count_obj                                   *)
(***************************************************************************)
\* the index normalisation of the object model, as mp_seq_index_obj uses it
\* (is_slice = true): a negative index counts from the end, then is clamped
mp_get_index(type, len, index, is_slice) ==
    LET i0 == MP_OBJ_SMALL_INT_VALUE(index)
        i1 == IF i0 < 0 THEN i0 + len ELSE i0
    IN  IF i1 < 0 THEN 0 ELSE IF i1 > len THEN len ELSE i1

mp_obj_get_type(o) == o.tag

\* lines 212-217: the scan from i to stop, ending at the first match
RECURSIVE index_scan(_, _, _, _, _)
index_scan(items, value, i, stop, tr) ==
    IF i >= stop THEN [found |-> FALSE, retval |-> 0, trace |-> tr]
    ELSE IF mp_obj_equal(items[i + 1], value)
    THEN [found |-> TRUE, retval |-> i, trace |-> Append(tr, [f |-> "mp_obj_equal", i |-> i])]
    ELSE index_scan(items, value, i + 1, stop, Append(tr, [f |-> "mp_obj_equal", i |-> i]))

\* mutant of mp_seq_index_obj: the start argument is not applied
mp_seq_index_obj_NoStart(items, len, n_args, args) ==
    LET type == mp_obj_get_type(args[1])
        value == args[2]
        start == 0
        stop == IF n_args >= 4 THEN mp_get_index(type, len, args[4], TRUE) ELSE len
        scan == index_scan(items, value, start, stop, <<>>)
    IN  IF scan.found
        THEN [raised |-> "none", retval |-> MP_OBJ_NEW_SMALL_INT(scan.retval), trace |-> scan.trace]
        ELSE [raised |-> "ValueError", retval |-> mp_const_none, trace |-> scan.trace]

mp_seq_index_obj(items, len, n_args, args) ==
    LET type == mp_obj_get_type(args[1])
        value == args[2]
        start == IF n_args >= 3 THEN mp_get_index(type, len, args[3], TRUE) ELSE 0
        stop == IF n_args >= 4 THEN mp_get_index(type, len, args[4], TRUE) ELSE len
        scan == index_scan(items, value, start, stop, <<>>)
    IN  IF scan.found
        THEN [raised |-> "none", retval |-> MP_OBJ_NEW_SMALL_INT(scan.retval), trace |-> scan.trace]
        ELSE [raised |-> "ValueError", retval |-> mp_const_none, trace |-> scan.trace]

\* lines 224-228: the full scan
RECURSIVE count_scan(_, _, _, _, _)
count_scan(items, len, value, i, count) ==
    IF i >= len THEN count
    ELSE count_scan(items, len, value, i + 1,
                    IF mp_obj_equal(items[i + 1], value) THEN count + 1 ELSE count)

\* mutant of mp_seq_count_obj: the scan starts at index 1
mp_seq_count_obj_SkipFirst(items, len, value) ==
    MP_OBJ_NEW_SMALL_INT(count_scan(items, len, value, 1, 0))

mp_seq_count_obj(items, len, value) == MP_OBJ_NEW_SMALL_INT(count_scan(items, len, value, 0, 0))

(***************************************************************************)
(* mp_seq_multiply.  Pointers are 0-based addresses into mem.              *)
(***************************************************************************)
\* memcpy(dest, src, n) on the memory m: n bytes from address src to address dest
memcpy(m, dest, src, n) ==
    [k \in 1..Len(m) |-> IF dest < k /\ k <= dest + n THEN m[src + (k - dest)] ELSE m[k]]

\* mutant of multiply_loop: the cursor advances by len, not by copy_sz
RECURSIVE multiply_loop_AdvanceLen(_, _, _, _, _, _, _, _)
multiply_loop_AdvanceLen(m, items, item_sz, len, times, dest, i, written) ==
    IF i >= times THEN [mem |-> m, written |-> written]
    ELSE LET copy_sz == item_sz * len
         IN  multiply_loop_AdvanceLen(memcpy(m, dest, items, copy_sz), items, item_sz, len,
                                      times, dest + len, i + 1, written + copy_sz)

\* lines 47-51: one copy per iteration, the destination cursor advancing by copy_sz
RECURSIVE multiply_loop(_, _, _, _, _, _, _, _)
multiply_loop(m, items, item_sz, len, times, dest, i, written) ==
    IF i >= times THEN [mem |-> m, written |-> written]
    ELSE LET copy_sz == item_sz * len
         IN  multiply_loop(memcpy(m, dest, items, copy_sz), items, item_sz, len, times,
                           dest + copy_sz, i + 1, written + copy_sz)

\* m is the memory before the call; the result is the memory after it
mp_seq_multiply(m, items, item_sz, len, times, dest) ==
    multiply_loop(m, items, item_sz, len, times, dest, 0, 0)

(***************************************************************************)
(* The callers: the arguments a call can be given.                         *)
(***************************************************************************)
SeqsOver(S, n) == UNION {[1..k -> S] : k \in 0..n}

Vals == 0..MaxVal

\* start and stop of a slice: None, or a small int from below -len to above len
SliceInts == (0 - (MaxLen + 2))..(MaxLen + 2)

SliceBounds == {mp_const_none} \cup {MP_OBJ_NEW_SMALL_INT(n) : n \in SliceInts}

\* steps: None, a small int, or True (equal to 1 in the language, but not the small int 1)
SliceSteps ==
    {mp_const_none, mp_const_true} \cup {MP_OBJ_NEW_SMALL_INT(n) : n \in (0 - 1)..MaxStep}

Slices == [start : SliceBounds, stop : SliceBounds, step : SliceSteps]

\* what the caller's cells *begin and *end hold before the call
Garbage == {0, WordMod - 1}

\* the start and stop arguments of index()
IndexArgs == {MP_OBJ_NEW_SMALL_INT(n) : n \in (0 - (MaxSeqLen + 1))..(MaxSeqLen + 1)}

\* element sizes: a byte, and a wider element
ItemSizes == {1, 2}

Box(kind, s) ==
    [k \in 1..Len(s) |-> IF kind = "set" THEN NewSet(s[k]) ELSE MP_OBJ_NEW_SMALL_INT(s[k])]

Unbox(s) == [k \in 1..Len(s) |-> s[k].val]

self_obj == [tag |-> "list", val |-> 0]

\* the layout of mem: the destination at 0, then Slack bytes, then the source run
MulDest == 0

MulItems == in_times * in_item_sz * in_mlen + Slack

NoCall(site) ==
    /\ pc = site
    /\ fn = "none"
    /\ result = FALSE
    /\ retval = mp_const_none
    /\ raised = "none"
    /\ trace = <<>>

IdleSlice ==
    /\ in_len = 0
    /\ in_slice = [start |-> mp_const_none, stop |-> mp_const_none, step |-> mp_const_none]
    /\ out_begin = 0
    /\ out_end = 0

IdleCmp ==
    /\ in_op = MP_BINARY_OP_EQUAL
    /\ in_data1 = <<>>
    /\ in_data2 = <<>>
    /\ in_items1 = <<>>
    /\ in_items2 = <<>>

IdleSearch ==
    /\ in_items = <<>>
    /\ in_args = <<>>

IdleMul ==
    /\ mem = <<>>
    /\ in_item_sz = 1
    /\ in_mlen = 0
    /\ in_times = 0

InitSlice ==
    /\ NoCall("slice") /\ IdleCmp /\ IdleSearch /\ IdleMul
    /\ in_len \in 0..MaxLen
    /\ in_slice \in Slices
    /\ \E g \in Garbage : out_begin = g /\ out_end = g

InitCmp ==
    /\ NoCall("cmp") /\ IdleSlice /\ IdleSearch /\ IdleMul
    /\ in_op \in CmpOps
    /\ in_data1 \in SeqsOver(Vals, MaxSeqLen)
    /\ in_data2 \in SeqsOver(Vals, MaxSeqLen)
    /\ \E kind \in {"int", "set"} :
          /\ in_items1 = Box(kind, in_data1)
          /\ in_items2 = Box(kind, in_data2)

InitSearch ==
    /\ NoCall("search") /\ IdleSlice /\ IdleCmp /\ IdleMul
    /\ in_items \in {Box("int", s) : s \in SeqsOver(Vals, MaxSeqLen)}
    /\ \E v \in Vals, extra \in SeqsOver(IndexArgs, 2) :
          in_args = <<self_obj, MP_OBJ_NEW_SMALL_INT(v)>> \o extra

InitMul ==
    /\ NoCall("mul") /\ IdleSlice /\ IdleCmp /\ IdleSearch
    /\ in_item_sz \in ItemSizes
    /\ in_mlen \in 0..MaxSeqLen
    /\ in_times \in 0..MaxTimes
    /\ \E fill \in Vals, source \in [1..(in_item_sz * in_mlen) -> Vals] :
          mem = [k \in 1..(in_times * in_item_sz * in_mlen + Slack) |-> fill] \o source

Init == InitSlice \/ InitCmp \/ InitSearch \/ InitMul

(***************************************************************************)
(* The calls.                                                              *)
(***************************************************************************)
CallSlice ==
    /\ pc = "slice"
    /\ LET r == mp_seq_get_fast_slice_indexes(in_len, in_slice, out_begin, out_end)
       IN  /\ out_begin' = r.begin
           /\ out_end' = r.end
           /\ result' = r.result
           /\ raised' = r.raised
    /\ pc' = "done"
    /\ fn' = "mp_seq_get_fast_slice_indexes"
    /\ UNCHANGED <<in_len, in_slice, in_op, in_data1, in_data2, in_items1, in_items2,
                   in_items, in_args, mem, in_item_sz, in_mlen, in_times, retval, trace>>

CallCmpBytes ==
    /\ pc = "cmp"
    /\ LET r == mp_seq_cmp_bytes(in_op, in_data1, Len(in_data1), in_data2, Len(in_data2))
       IN  /\ result' = r.result
           /\ trace' = r.trace
    /\ pc' = "done"
    /\ fn' = "mp_seq_cmp_bytes"
    /\ UNCHANGED <<in_len, in_slice, out_begin, out_end, in_op, in_data1, in_data2,
                   in_items1, in_items2, in_items, in_args, mem, in_item_sz, in_mlen,
                   in_times, retval, raised>>

CallCmpObjs ==
    /\ pc = "cmp"
    /\ LET r == mp_seq_cmp_objs(in_op, in_items1, Len(in_items1), in_items2, Len(in_items2))
       IN  /\ result' = r.result
           /\ trace' = r.trace
    /\ pc' = "done"
    /\ fn' = "mp_seq_cmp_objs"
    /\ UNCHANGED <<in_len, in_slice, out_begin, out_end, in_op, in_data1, in_data2,
                   in_items1, in_items2, in_items, in_args, mem, in_item_sz, in_mlen,
                   in_times, retval, raised>>

CallIndex ==
    /\ pc = "search"
    /\ LET r == mp_seq_index_obj(in_items, Len(in_items), Len(in_args), in_args)
       IN  /\ retval' = r.retval
           /\ raised' = r.raised
           /\ trace' = r.trace
    /\ pc' = "done"
    /\ fn' = "mp_seq_index_obj"
    /\ UNCHANGED <<in_len, in_slice, out_begin, out_end, in_op, in_data1, in_data2,
                   in_items1, in_items2, in_items, in_args, mem, in_item_sz, in_mlen,
                   in_times, result>>

CallCount ==
    /\ pc = "search"
    /\ Len(in_args) = 2
    /\ retval' = mp_seq_count_obj(in_items, Len(in_items), in_args[2])
    /\ pc' = "done"
    /\ fn' = "mp_seq_count_obj"
    /\ UNCHANGED <<in_len, in_slice, out_begin, out_end, in_op, in_data1, in_data2,
                   in_items1, in_items2, in_items, in_args, mem, in_item_sz, in_mlen,
                   in_times, result, raised, trace>>

CallMultiply ==
    /\ pc = "mul"
    /\ LET r == mp_seq_multiply(mem, MulItems, in_item_sz, in_mlen, in_times, MulDest)
       IN  /\ mem' = r.mem
           /\ retval' = MP_OBJ_NEW_SMALL_INT(r.written)
    /\ pc' = "done"
    /\ fn' = "mp_seq_multiply"
    /\ UNCHANGED <<in_len, in_slice, out_begin, out_end, in_op, in_data1, in_data2,
                   in_items1, in_items2, in_items, in_args, in_item_sz, in_mlen,
                   in_times, result, raised, trace>>

NextSlice == CallSlice

NextCmp == CallCmpBytes \/ CallCmpObjs

NextSearch == CallIndex \/ CallCount

NextMul == CallMultiply

Next == CallSlice \/ CallCmpBytes \/ CallCmpObjs \/ CallIndex \/ CallCount \/ CallMultiply

SpecSlice == InitSlice /\ [][NextSlice]_vars

SpecCmp == InitCmp /\ [][NextCmp]_vars

SpecSearch == InitSearch /\ [][NextSearch]_vars

SpecMul == InitMul /\ [][NextMul]_vars

Spec == Init /\ [][Next]_vars

(***************************************************************************)
(* Properties of mp_seq_get_fast_slice_indexes (SpecSlice).                *)
(***************************************************************************)
SliceReturned == pc = "done" /\ fn = "mp_seq_get_fast_slice_indexes"

StepIsDefault == in_slice.step = mp_const_none \/ in_slice.step = MP_OBJ_NEW_SMALL_INT(1)

Min(a, b) == IF a < b THEN a ELSE b

Max(a, b) == IF a > b THEN a ELSE b

\* C1: slice resolution is total: for every length, every start and stop (unspecified,
\* negative, zero, positive, beyond the length) and a step that is unspecified or 1,
\* the call does not fail and leaves 0 <= begin <= end <= length.
C1_SliceTotality ==
    (SliceReturned /\ StepIsDefault) =>
        /\ raised = "none"
        /\ result = TRUE
        /\ 0 <= out_begin
        /\ out_begin <= out_end
        /\ out_end <= in_len

\* a start beyond the length with a stop too far below zero resolved to the empty
\* range at the length
C1_Witness ==
    /\ SliceReturned
    /\ in_len = 3
    /\ in_slice.start = MP_OBJ_NEW_SMALL_INT(5)
    /\ in_slice.stop = MP_OBJ_NEW_SMALL_INT(0 - 5)
    /\ in_slice.step = MP_OBJ_NEW_SMALL_INT(1)
    /\ raised = "none"
    /\ out_begin = 3
    /\ out_end = 3

\* the range the slice rules give, from the start and stop objects
ExpectedBegin(length, ostart) ==
    IF ostart = mp_const_none THEN 0
    ELSE IF ostart.val < 0 THEN Max(0, length + ostart.val)
    ELSE Min(ostart.val, length)

ExpectedEnd(length, ostop, b) ==
    LET e == IF ostop = mp_const_none THEN length
             ELSE IF ostop.val < 0
                  THEN (IF length + ostop.val >= 0 THEN length + ostop.val ELSE b)
                  ELSE Min(ostop.val, length)
    IN  Max(b, e)

\* C2: for a step that is unspecified or 1 the resolved range is exactly: begin = 0 for
\* an unspecified start, max(0, length + start) for a negative one, min(start, length)
\* otherwise; end = max(begin, e) with e = length for an unspecified stop, length + stop
\* for a negative stop that stays >= 0, begin for one that does not, min(stop, length)
\* otherwise.  Length 10 with start -3 and no stop gives (7, 10); start 5 with stop 2
\* gives (5, 5).
C2_SliceExact ==
    (SliceReturned /\ StepIsDefault) =>
        /\ out_begin = ExpectedBegin(in_len, in_slice.start)
        /\ out_end = ExpectedEnd(in_len, in_slice.stop, out_begin)
        /\ (in_len = 10 /\ in_slice.start = MP_OBJ_NEW_SMALL_INT(0 - 3)
               /\ in_slice.stop = mp_const_none) => (out_begin = 7 /\ out_end = 10)
        /\ (in_len >= 5 /\ in_slice.start = MP_OBJ_NEW_SMALL_INT(5)
               /\ in_slice.stop = MP_OBJ_NEW_SMALL_INT(2)) => (out_begin = 5 /\ out_end = 5)

\* length 10, slice [-3:] resolved to (7, 10)
C2_Witness ==
    /\ SliceReturned
    /\ in_len = 10
    /\ in_slice = [start |-> MP_OBJ_NEW_SMALL_INT(0 - 3), stop |-> mp_const_none,
                   step |-> mp_const_none]
    /\ out_begin = 7
    /\ out_end = 10

\* C3: for every length, start and stop, a call whose step is specified and is not
\* exactly 1 raises NotImplementedError, and the cells *begin and *end keep what they
\* held before the call.
C3_StepRejected ==
    [][(pc = "slice" /\ ~StepIsDefault) =>
          /\ raised' = "NotImplementedError"
          /\ out_begin' = out_begin
          /\ out_end' = out_end]_vars

\* a call with step -1 on a non-empty sequence raised and wrote nothing
C3_Witness ==
    /\ SliceReturned
    /\ in_len = 4
    /\ in_slice.step = MP_OBJ_NEW_SMALL_INT(0 - 1)
    /\ in_slice.start = MP_OBJ_NEW_SMALL_INT(1)
    /\ in_slice.stop = MP_OBJ_NEW_SMALL_INT(3)
    /\ raised = "NotImplementedError"
    /\ out_begin = WordMod - 1
    /\ out_end = WordMod - 1

(***************************************************************************)
(* Properties of mp_seq_cmp_bytes and mp_seq_cmp_objs (SpecCmp).           *)
(***************************************************************************)
BytesReturned == pc = "done" /\ fn = "mp_seq_cmp_bytes"

ObjsReturned == pc = "done" /\ fn = "mp_seq_cmp_objs"

\* C4: for both variants and all sequences A and B, compare(MORE, A, B) is
\* compare(LESS, B, A), and compare(MORE_EQUAL, A, B) is compare(LESS_EQUAL, B, A).
C4_SwapConsistency ==
    /\ (BytesReturned /\ in_op = MP_BINARY_OP_MORE) =>
          result = mp_seq_cmp_bytes(MP_BINARY_OP_LESS, in_data2, Len(in_data2),
                                    in_data1, Len(in_data1)).result
    /\ (BytesReturned /\ in_op = MP_BINARY_OP_MORE_EQUAL) =>
          result = mp_seq_cmp_bytes(MP_BINARY_OP_LESS_EQUAL, in_data2, Len(in_data2),
                                    in_data1, Len(in_data1)).result
    /\ (ObjsReturned /\ in_op = MP_BINARY_OP_MORE) =>
          result = mp_seq_cmp_objs(MP_BINARY_OP_LESS, in_items2, Len(in_items2),
                                   in_items1, Len(in_items1)).result
    /\ (ObjsReturned /\ in_op = MP_BINARY_OP_MORE_EQUAL) =>
          result = mp_seq_cmp_objs(MP_BINARY_OP_LESS_EQUAL, in_items2, Len(in_items2),
                                   in_items1, Len(in_items1)).result

\* compare_bytes(MORE, <<1, 2>>, <<1, 1>>) returned true, as compare_bytes(LESS, <<1, 1>>,
\* <<1, 2>>) does
C4_Witness ==
    /\ BytesReturned
    /\ in_op = MP_BINARY_OP_MORE
    /\ in_data1 = <<1, 2>>
    /\ in_data2 = <<1, 1>>
    /\ result = TRUE
    /\ mp_seq_cmp_bytes(MP_BINARY_OP_LESS, in_data2, 2, in_data1, 2).result = TRUE
    /\ mp_seq_cmp_bytes(MP_BINARY_OP_MORE, in_data2, 2, in_data1, 2).result = FALSE

\* a is a strict prefix of b: shorter, and equal to b element by element
BytesStrictPrefix(a, b) == Len(a) < Len(b) /\ \A k \in 1..Len(a) : a[k] = b[k]

ObjsStrictPrefix(a, b) == Len(a) < Len(b) /\ \A k \in 1..Len(a) : mp_obj_equal(a[k], b[k])

\* C5: for both variants, when A is a strict prefix of B (A empty included),
\* compare(MORE, A, B) is false and compare(MORE, B, A) is true.
C5_PrefixTieBreak ==
    /\ (BytesReturned /\ in_op = MP_BINARY_OP_MORE /\ BytesStrictPrefix(in_data1, in_data2)) =>
          result = FALSE
    /\ (BytesReturned /\ in_op = MP_BINARY_OP_MORE /\ BytesStrictPrefix(in_data2, in_data1)) =>
          result = TRUE
    /\ (ObjsReturned /\ in_op = MP_BINARY_OP_MORE /\ ObjsStrictPrefix(in_items1, in_items2)) =>
          result = FALSE
    /\ (ObjsReturned /\ in_op = MP_BINARY_OP_MORE /\ ObjsStrictPrefix(in_items2, in_items1)) =>
          result = TRUE

\* compare_elements(MORE, <<2, 1>>, <<2>>) returned true after one equality test
C5_Witness ==
    /\ ObjsReturned
    /\ in_op = MP_BINARY_OP_MORE
    /\ in_items1 = <<MP_OBJ_NEW_SMALL_INT(2), MP_OBJ_NEW_SMALL_INT(1)>>
    /\ in_items2 = <<MP_OBJ_NEW_SMALL_INT(2)>>
    /\ result = TRUE
    /\ Len(trace) = 1

\* C6: for both variants compare(EQUAL, A, B) is false whenever the lengths differ,
\* whatever the contents, and no element is examined: the byte variant does not reach
\* memcmp, the generic variant calls neither mp_obj_equal nor mp_binary_op.
C6_EqualShortcut ==
    /\ (BytesReturned /\ in_op = MP_BINARY_OP_EQUAL /\ Len(in_data1) # Len(in_data2)) =>
          (result = FALSE /\ trace = <<>>)
    /\ (ObjsReturned /\ in_op = MP_BINARY_OP_EQUAL /\ Len(in_items1) # Len(in_items2)) =>
          (result = FALSE /\ trace = <<>>)

\* compare_bytes(EQUAL, <<1>>, <<1, 2>>): equal on the common prefix, false all the same
C6_Witness ==
    /\ BytesReturned
    /\ in_op = MP_BINARY_OP_EQUAL
    /\ in_data1 = <<1>>
    /\ in_data2 = <<1, 2>>
    /\ result = FALSE
    /\ trace = <<>>

\* the lexicographic order of integer sequences, as a reference
IntRel(op, x, y) ==
    CASE op = MP_BINARY_OP_EQUAL -> x = y
      [] op = MP_BINARY_OP_LESS -> x < y
      [] op = MP_BINARY_OP_LESS_EQUAL -> x <= y
      [] op = MP_BINARY_OP_MORE -> x > y
      [] op = MP_BINARY_OP_MORE_EQUAL -> x >= y

FirstDiff(a, b) ==
    LET d == {k \in 1..Min(Len(a), Len(b)) : a[k] # b[k]}
    IN  IF d = {} THEN 0 ELSE CHOOSE k \in d : \A j \in d : k <= j

LexRef(op, a, b) ==
    IF FirstDiff(a, b) # 0
    THEN IntRel(op, a[FirstDiff(a, b)], b[FirstDiff(a, b)])
    ELSE IntRel(op, Len(a), Len(b))

IsIntSeq(s) == \A k \in 1..Len(s) : s[k].tag = "int"

\* C10: for every op and all sequences over a totally ordered element set both
\* variants return the lexicographic relation (the first differing index decides by the
\* element order; with none below the shorter length, the lengths decide), and the
\* generic variant on integers returns what the byte variant returns.
C10_Lexicographic ==
    /\ BytesReturned => result = LexRef(in_op, in_data1, in_data2)
    /\ (ObjsReturned /\ IsIntSeq(in_items1) /\ IsIntSeq(in_items2)) =>
          /\ result = LexRef(in_op, Unbox(in_items1), Unbox(in_items2))
          /\ result = mp_seq_cmp_bytes(in_op, Unbox(in_items1), Len(in_items1),
                                       Unbox(in_items2), Len(in_items2)).result

\* compare_elements(LESS_EQUAL, <<1, 0>>, <<1, 2>>) decided true at index 1
C10_Witness ==
    /\ ObjsReturned
    /\ in_op = MP_BINARY_OP_LESS_EQUAL
    /\ in_items1 = <<MP_OBJ_NEW_SMALL_INT(1), MP_OBJ_NEW_SMALL_INT(0)>>
    /\ in_items2 = <<MP_OBJ_NEW_SMALL_INT(1), MP_OBJ_NEW_SMALL_INT(2)>>
    /\ result = TRUE
    /\ trace[Len(trace)] = [f |-> "mp_binary_op", i |-> 1]

(***************************************************************************)
(* Properties of mp_seq_index_obj and mp_seq_count_obj (SpecSearch).       *)
(***************************************************************************)
IndexReturned == pc = "done" /\ fn = "mp_seq_index_obj"

CountReturned == pc = "done" /\ fn = "mp_seq_count_obj"

\* the 0-based indexes in lo..hi-1 whose element equals the target
Matches(lo, hi) == {i \in lo..(hi - 1) : mp_obj_equal(in_items[i + 1], in_args[2])}

Smallest(S) == CHOOSE i \in S : \A j \in S : i <= j

\* C7: searching the whole sequence (no start, no stop) fails with ValueError exactly
\* when count is 0, and otherwise returns the smallest index holding the value.
C7_SearchCountAgree ==
    /\ (IndexReturned /\ Len(in_args) = 2) =>
          /\ (raised = "ValueError") <=>
                (mp_seq_count_obj(in_items, Len(in_items), in_args[2]) = MP_OBJ_NEW_SMALL_INT(0))
          /\ raised \in {"none", "ValueError"}
          /\ raised = "none" =>
                /\ Matches(0, Len(in_items)) # {}
                /\ retval = MP_OBJ_NEW_SMALL_INT(Smallest(Matches(0, Len(in_items))))
    /\ CountReturned =>
          /\ retval = MP_OBJ_NEW_SMALL_INT(Cardinality(Matches(0, Len(in_items))))
          /\ (retval = MP_OBJ_NEW_SMALL_INT(0)) <=>
                (mp_seq_index_obj(in_items, Len(in_items), 2, in_args).raised = "ValueError")

\* index([1, 2], 1) returned 0, where count([1, 2], 1) is 1
C7_Witness ==
    /\ IndexReturned
    /\ Len(in_args) = 2
    /\ in_items = <<MP_OBJ_NEW_SMALL_INT(1), MP_OBJ_NEW_SMALL_INT(2)>>
    /\ in_args[2] = MP_OBJ_NEW_SMALL_INT(1)
    /\ raised = "none"
    /\ retval = MP_OBJ_NEW_SMALL_INT(0)
    /\ mp_seq_count_obj(in_items, 2, in_args[2]) = MP_OBJ_NEW_SMALL_INT(1)

\* a bound of the search as the caller means it: negative counts from the end, then
\* clamped to [0, length]
Normalised(length, o) ==
    LET v == IF o.val < 0 THEN o.val + length ELSE o.val
    IN  Max(0, Min(v, length))

SearchStart == IF Len(in_args) >= 3 THEN Normalised(Len(in_items), in_args[3]) ELSE 0

SearchStop == IF Len(in_args) >= 4 THEN Normalised(Len(in_items), in_args[4]) ELSE Len(in_items)

\* C9: with optional start and stop, each normalised on its own (defaults 0 and length),
\* the search returns the smallest index i with start <= i < stop whose element equals
\* the target, raises ValueError when there is none (start >= stop, or the target only
\* outside the range), examines no index outside [start, stop) or outside [0, length),
\* and none after the first match.
C9_BoundedSearch ==
    IndexReturned =>
        LET M == Matches(SearchStart, SearchStop)
        IN  /\ (M = {}) <=> (raised = "ValueError")
            /\ (M # {}) =>
                  /\ raised = "none"
                  /\ retval = MP_OBJ_NEW_SMALL_INT(Smallest(M))
            /\ \A k \in 1..Len(trace) :
                  /\ SearchStart <= trace[k].i /\ trace[k].i < SearchStop
                  /\ 0 <= trace[k].i /\ trace[k].i < Len(in_items)
                  /\ (M # {}) => trace[k].i <= Smallest(M)

\* index([1, 1], 1, -1): the match at 0 lies before start, the one at 1 is returned
\* after a single element was examined
C9_Witness ==
    /\ IndexReturned
    /\ in_items = <<MP_OBJ_NEW_SMALL_INT(1), MP_OBJ_NEW_SMALL_INT(1)>>
    /\ in_args = <<self_obj, MP_OBJ_NEW_SMALL_INT(1), MP_OBJ_NEW_SMALL_INT(0 - 1)>>
    /\ raised = "none"
    /\ retval = MP_OBJ_NEW_SMALL_INT(1)
    /\ Len(trace) = 1

(***************************************************************************)
(* Properties of mp_seq_multiply (SpecMul).                                *)
(***************************************************************************)
MultiplyReturned == pc = "done" /\ fn = "mp_seq_multiply"

\* the byte size of the source run
RunSize == in_item_sz * in_mlen

\* C8: for a source run of L = len * item_sz bytes and any times >= 0, after the call
\* dest[k] = source[k mod L] for every k < times * L, exactly times * L bytes were
\* written, every byte of memory outside the first times * L bytes of the destination
\* is unchanged, and so is the source run.
C8_Repeat ==
    [][pc = "mul" =>
          /\ Len(mem') = Len(mem)
          /\ \A k \in 0..(in_times * RunSize - 1) :
                mem'[MulDest + k + 1] = mem[MulItems + (k % RunSize) + 1]
          /\ retval' = MP_OBJ_NEW_SMALL_INT(in_times * RunSize)
          /\ \A a \in 1..Len(mem) :
                (a <= MulDest \/ a > MulDest + in_times * RunSize) => mem'[a] = mem[a]
          /\ \A k \in 0..(RunSize - 1) : mem'[MulItems + k + 1] = mem[MulItems + k + 1]]_vars

\* two elements of two bytes each, repeated twice: 1 2 0 1 | 1 2 0 1 | slack | source
C8_Witness ==
    /\ MultiplyReturned
    /\ in_item_sz = 2
    /\ in_mlen = 2
    /\ in_times = 2
    /\ mem = <<1, 2, 0, 1, 1, 2, 0, 1, 0, 1, 2, 0, 1>>
    /\ retval = MP_OBJ_NEW_SMALL_INT(8)

====
